---- MODULE Spec2Model ----
(***************************************************************************)
(* A model of src/src/App.tsx: the colour conversions (hexToRgb, rgbToHsl), *)
(* the palette generator (generateHarmoniousPalette, generateColorName),   *)
(* the ColorSwatch render and the App component's state and handlers       *)
(* (handleGenerate, updateName, the three slider onChange handlers,        *)
(* handleExport).                                                          *)
(*                                                                         *)
(* Strings are sequences of one-character strings, so that slicing,        *)
(* padding, parsing and JSON escaping are computed and not assumed.        *)
(* JavaScript numbers are modelled by integers where the code produces     *)
(* integers and by exact rationals [n, d] where it divides; IEEE rounding  *)
(* of the divisions is not modelled.  Math.random() is a fraction m/2^24   *)
(* with 0 <= m < 2^24, i.e. a value in [0, 1).                             *)
(***************************************************************************)
EXTENDS Integers, Sequences, FiniteSets, TLC

VARIABLES
    palette,        \* App state: sequence of [color, name]            (l.150)
    adjustments,    \* App state: [hue, saturation, brightness]        (l.156)
    exportSeen,     \* the palette captured by the memoized handleExport (l.171-180)
    lastOp,         \* the handler that ran last: "init", "generate", ...
    download,       \* what the last handler handed to the browser as a download
    liveUrls,       \* object URLs created and not yet revoked
    paletteB,       \* a second App instance (two-session comparison)
    adjustmentsB,
    exportSeenB,
    downloadB,
    genIn,          \* a generator run: the Math.random() results fed in
    genOut,         \* and the colours that came out
    hexIn,          \* colour pipeline: the input string
    rgb,            \* hexToRgb's result
    hsl,            \* rgbToHsl's result
    hexOut,         \* the triple encoded again
    stage

sessionVars == <<palette, adjustments, exportSeen, lastOp, download, liveUrls>>
pairVars    == <<paletteB, adjustmentsB, exportSeenB, downloadB>>
genVars     == <<genIn, genOut>>
colorVars   == <<hexIn, rgb, hsl, hexOut, stage>>
vars        == <<sessionVars, pairVars, genVars, colorVars>>

-----------------------------------------------------------------------------
(* Strings *)

\* String.prototype.slice(from, to) with 0 <= from <= to (0-based, to exclusive).
Slice(s, from, to) ==
    LET hi == IF to < Len(s) THEN to ELSE Len(s)
    IN  IF from >= hi THEN <<>> ELSE SubSeq(s, from + 1, hi)

RECURSIVE Repeat(_, _)
Repeat(ch, n) == IF n <= 0 THEN <<>> ELSE <<ch>> \o Repeat(ch, n - 1)

\* String.prototype.padStart(targetLength, padChar)
padStart(s, targetLength, ch) == Repeat(ch, targetLength - Len(s)) \o s

LowerDigits == <<"0","1","2","3","4","5","6","7","8","9","a","b","c","d","e","f">>
UpperDigits == <<"0","1","2","3","4","5","6","7","8","9","A","B","C","D","E","F">>

IsHexDigit(ch) == \E k \in 1..16 : LowerDigits[k] = ch \/ UpperDigits[k] = ch

HexVal(ch) == (CHOOSE k \in 1..16 : LowerDigits[k] = ch \/ UpperDigits[k] = ch) - 1

ToLower(s) == [k \in 1..Len(s) |->
                 IF IsHexDigit(s[k]) THEN LowerDigits[HexVal(s[k]) + 1] ELSE s[k]]

\* parseInt(s, 16): the value of the longest prefix of hex digits, NaN if none.
RECURSIVE ParseDigits(_, _, _)
ParseDigits(s, k, acc) ==
    IF k > Len(s) \/ ~IsHexDigit(s[k]) THEN acc
    ELSE ParseDigits(s, k + 1, 16 * acc + HexVal(s[k]))

parseInt16(s) ==
    IF s = <<>> \/ ~IsHexDigit(s[1]) THEN "NaN" ELSE ParseDigits(s, 1, 0)

\* Number.prototype.toString(16) of a non-negative integer.
RECURSIVE toString16(_)
toString16(n) ==
    IF n < 16 THEN <<LowerDigits[n + 1]>>
    ELSE toString16(n \div 16) \o <<LowerDigits[(n % 16) + 1]>>

\* '#' followed by exactly 6 hex digits
ValidColor(c) ==
    /\ Len(c) = 7
    /\ c[1] = "#"
    /\ \A k \in 2..7 : IsHexDigit(c[k])

-----------------------------------------------------------------------------
(* Exact rationals *)

RECURSIVE Gcd(_, _)
Gcd(a, b) == IF b = 0 THEN a ELSE Gcd(b, a % b)

Abs(x) == IF x < 0 THEN -x ELSE x

Rat(n, d) ==
    LET g == Gcd(Abs(n), Abs(d))
        s == IF d < 0 THEN -1 ELSE 1
    IN  [n |-> (s * n) \div g, d |-> (s * d) \div g]

RInt(k)    == [n |-> k, d |-> 1]
RAdd(x, y) == Rat(x.n * y.d + y.n * x.d, x.d * y.d)
RSub(x, y) == Rat(x.n * y.d - y.n * x.d, x.d * y.d)
RMul(x, y) == Rat(x.n * y.n, x.d * y.d)
RDiv(x, y) == Rat(x.n * y.d, x.d * y.n)
RLt(x, y)  == x.n * y.d < y.n * x.d
RLe(x, y)  == x.n * y.d <= y.n * x.d
RMax(x, y) == IF RLt(x, y) THEN y ELSE x
RMin(x, y) == IF RLt(y, x) THEN y ELSE x
RFloor(x)  == x.n \div x.d

\* Math.round: the nearest integer, halves rounded up.
MathRound(x) == RFloor(RAdd(x, Rat(1, 2)))

-----------------------------------------------------------------------------
(* Colour conversions *)

\* hexToRgb reading the green pair one character early
hexToRgbShifted(hex) ==
    [r |-> parseInt16(Slice(hex, 1, 3)),
     g |-> parseInt16(Slice(hex, 2, 4)),
     b |-> parseInt16(Slice(hex, 5, 7))]

hexToRgb(hex) ==
    [r |-> parseInt16(Slice(hex, 1, 3)),
     g |-> parseInt16(Slice(hex, 3, 5)),
     b |-> parseInt16(Slice(hex, 5, 7))]

\* rgbToHsl without the (g < b ? 6 : 0) term of the red sector
rgbToHslNoWrap(r0, g0, b0) ==
    LET r   == Rat(r0, 255)
        g   == Rat(g0, 255)
        b   == Rat(b0, 255)
        max == RMax(RMax(r, g), b)
        min == RMin(RMin(r, g), b)
        l   == RDiv(RAdd(max, min), RInt(2))
        d   == RSub(max, min)
        s   == IF RLt(Rat(1, 2), l)
               THEN RDiv(d, RSub(RSub(RInt(2), max), min))
               ELSE RDiv(d, RAdd(max, min))
        h6  == IF max = r
               THEN RDiv(RSub(g, b), d)
               ELSE IF max = g
               THEN RAdd(RDiv(RSub(b, r), d), RInt(2))
               ELSE RAdd(RDiv(RSub(r, g), d), RInt(4))
        h   == RDiv(h6, RInt(6))
    IN  IF max = min
        THEN [h |-> RInt(0), s |-> RInt(0), l |-> RMul(l, RInt(100))]
        ELSE [h |-> RMul(h, RInt(360)),
              s |-> RMul(s, RInt(100)),
              l |-> RMul(l, RInt(100))]

rgbToHsl(r0, g0, b0) ==
    LET r   == Rat(r0, 255)
        g   == Rat(g0, 255)
        b   == Rat(b0, 255)
        max == RMax(RMax(r, g), b)
        min == RMin(RMin(r, g), b)
        l   == RDiv(RAdd(max, min), RInt(2))
        d   == RSub(max, min)
        s   == IF RLt(Rat(1, 2), l)
               THEN RDiv(d, RSub(RSub(RInt(2), max), min))
               ELSE RDiv(d, RAdd(max, min))
        h6  == IF max = r
               THEN RAdd(RDiv(RSub(g, b), d), IF RLt(g, b) THEN RInt(6) ELSE RInt(0))
               ELSE IF max = g
               THEN RAdd(RDiv(RSub(b, r), d), RInt(2))
               ELSE RAdd(RDiv(RSub(r, g), d), RInt(4))
        h   == RDiv(h6, RInt(6))
    IN  IF max = min
        THEN [h |-> RInt(0), s |-> RInt(0), l |-> RMul(l, RInt(100))]
        ELSE [h |-> RMul(h, RInt(360)),
              s |-> RMul(s, RInt(100)),
              l |-> RMul(l, RInt(100))]

\* The triple written again as '#' and six zero-padded lowercase hex digits,
\* with the generator's own encoding (toString(16).padStart(6, "0")).
rgbToHex(c) ==
    <<"#">> \o padStart(toString16(c.r * 65536 + c.g * 256 + c.b), 6, "0")

-----------------------------------------------------------------------------
(* Math.random() and the palette generator *)

\* Math.random() returns m / RandDen for some m in 0 .. RandDen - 1.
RandDen == 4096 * 4096

\* Math.floor(m / RandDen * k) for 0 <= k < 2^24, exactly: the 48-bit product
\* is formed from 12-bit halves, each partial product below 2^25.
MulFloor(m, k) ==
    LET mh == m \div 4096
        ml == m % 4096
        kh == k \div 4096
        kl == k % 4096
        p0 == ml * kl
        p1 == ml * kh + mh * kl
        p2 == mh * kh
    IN  p2 + ((p1 + (p0 \div 4096)) \div 4096)

PaletteSize == 5

ColorRange == 16777215

names == << <<"S","k","y">>, <<"O","c","e","a","n">>, <<"F","o","r","e","s","t">>,
            <<"S","u","n","s","e","t">>, <<"S","t","o","n","e">>,
            <<"B","e","r","r","y">>, <<"C","l","o","u","d">>, <<"D","u","s","k">> >>

\* generateColorName(hex), rnd being the call's Math.random() result
generateColorName(hex, rnd) ==
    names[MulFloor(rnd, Len(names)) + 1] \o <<"-">> \o Slice(hex, 1, 4)

\* const baseHue = Math.random() * 360, in degrees (m * 360 / 2^24)
BaseHue(rnd) == Rat(rnd * 45, 2097152)

\* const hue = (baseHue + i * 72) % 360
SlotHue(baseHue, i) ==
    LET x == RAdd(baseHue, RInt(i * 72))
    IN  IF RLt(x, RInt(360)) THEN x ELSE RSub(x, RInt(360))

\* SlotColor without padStart: short numbers give short strings
SlotColorNoPad(hue, rnd) == <<"#">> \o toString16(MulFloor(rnd, ColorRange))

\* The body of the map callback for slot i: hue is computed and then the
\* returned string is built from a fresh Math.random() alone.
SlotColor(hue, rnd) ==
    <<"#">> \o padStart(toString16(MulFloor(rnd, ColorRange)), 6, "0")

\* generateHarmoniousPalette(), run == [base, colors]: the six Math.random()
\* results it consumes, in call order.
generateHarmoniousPalette(run) ==
    [k \in 1..PaletteSize |->
        SlotColor(SlotHue(BaseHue(run.base), k - 1), run.colors[k])]

\* generateHarmoniousPalette().map(color => ({color, name: generateColorName(color)}))
\* run.labels are the five Math.random() results of the generateColorName calls.
NewPalette(run) ==
    LET colors == generateHarmoniousPalette(run)
    IN  [k \in 1..Len(colors) |->
            [color |-> colors[k], name |-> generateColorName(colors[k], run.labels[k])]]

-----------------------------------------------------------------------------
(* JSON text of the export, and its reader *)

Indent(n) == Repeat(" ", n)

\* JSON.stringify's quoting of a string value
EscapeChar(ch) ==
    IF ch = "\"" THEN <<"\\", "\"">>
    ELSE IF ch = "\\" THEN <<"\\", "\\">>
    ELSE IF ch = "\n" THEN <<"\\", "n">>
    ELSE <<ch>>

RECURSIVE EscapeFrom(_, _)
EscapeFrom(s, k) ==
    IF k > Len(s) THEN <<>> ELSE EscapeChar(s[k]) \o EscapeFrom(s, k + 1)

Quote(s) == <<"\"">> \o EscapeFrom(s, 1) \o <<"\"">>

ColorKey == <<"c","o","l","o","r">>
NameKey  == <<"n","a","m","e">>

\* One {color, name} object at nesting depth 1 of JSON.stringify(value, null, 2)
StringifyEntry(e) ==
    Indent(2) \o <<"{", "\n">>
    \o Indent(4) \o Quote(ColorKey) \o <<":", " ">> \o Quote(e.color) \o <<",", "\n">>
    \o Indent(4) \o Quote(NameKey) \o <<":", " ">> \o Quote(e.name) \o <<"\n">>
    \o Indent(2) \o <<"}">>

RECURSIVE StringifyFrom(_, _)
StringifyFrom(p, k) ==
    IF k > Len(p) THEN <<>>
    ELSE StringifyEntry(p[k])
         \o (IF k < Len(p) THEN <<",", "\n">> ELSE <<"\n">>)
         \o StringifyFrom(p, k + 1)

\* JSON.stringify(palette, null, 2)
JSONstringify(p) ==
    IF Len(p) = 0 THEN <<"[", "]">>
    ELSE <<"[", "\n">> \o StringifyFrom(p, 1) \o <<"]">>

\* The reader of the exported file: a JSON parser for arrays of objects whose
\* members are strings.  Each Read* returns [ok, val, next].
Bad == [ok |-> FALSE, val |-> <<>>, next |-> 0]

RECURSIVE SkipWs(_, _)
SkipWs(s, i) ==
    IF i <= Len(s) /\ s[i] \in {" ", "\n"} THEN SkipWs(s, i + 1) ELSE i

Unescape(ch) == IF ch = "n" THEN "\n" ELSE ch

\* s[i] is the character after the opening quote
RECURSIVE ReadString(_, _, _)
ReadString(s, i, acc) ==
    IF i > Len(s) THEN Bad
    ELSE IF s[i] = "\"" THEN [ok |-> TRUE, val |-> acc, next |-> i + 1]
    ELSE IF s[i] = "\\"
         THEN IF i + 1 > Len(s) \/ s[i + 1] \notin {"\"", "\\", "n"} THEN Bad
              ELSE ReadString(s, i + 2, Append(acc, Unescape(s[i + 1])))
    ELSE ReadString(s, i + 1, Append(acc, s[i]))

\* The members of an object, s[i] being the character after '{' or ','.
\* val is the sequence of <<key, value>> pairs read.
RECURSIVE ReadMembers(_, _, _)
ReadMembers(s, i, acc) ==
    LET a == SkipWs(s, i)
    IN  IF a > Len(s) \/ s[a] # "\"" THEN Bad
        ELSE LET key == ReadString(s, a + 1, <<>>)
                 c   == IF key.ok THEN SkipWs(s, key.next) ELSE 0
             IN  IF ~key.ok \/ c > Len(s) \/ s[c] # ":" THEN Bad
                 ELSE LET v == SkipWs(s, c + 1)
                      IN  IF v > Len(s) \/ s[v] # "\"" THEN Bad
                          ELSE LET val == ReadString(s, v + 1, <<>>)
                                   e   == IF val.ok THEN SkipWs(s, val.next) ELSE 0
                                   got == Append(acc, <<key.val, val.val>>)
                               IN  IF ~val.ok \/ e > Len(s) THEN Bad
                                   ELSE IF s[e] = "," THEN ReadMembers(s, e + 1, got)
                                   ELSE IF s[e] = "}"
                                        THEN [ok |-> TRUE, val |-> got, next |-> e + 1]
                                   ELSE Bad

\* The value of member key (the last one of that name, as JSON.parse keeps it)
Member(members, key) ==
    LET ks == {k \in 1..Len(members) : members[k][1] = key}
    IN  IF ks = {} THEN <<"undefined">>
        ELSE members[CHOOSE k \in ks : \A j \in ks : j <= k][2]

\* The elements of an array, s[i] being the character after '[' or ','.
RECURSIVE ReadElements(_, _, _)
ReadElements(s, i, acc) ==
    LET a == SkipWs(s, i)
    IN  IF a > Len(s) \/ s[a] # "{" THEN Bad
        ELSE LET obj == ReadMembers(s, a + 1, <<>>)
                 e   == IF obj.ok THEN SkipWs(s, obj.next) ELSE 0
                 got == Append(acc, [color |-> Member(obj.val, ColorKey),
                                     name  |-> Member(obj.val, NameKey),
                                     keys  |-> [k \in 1..Len(obj.val) |-> obj.val[k][1]]])
             IN  IF ~obj.ok \/ e > Len(s) THEN Bad
                 ELSE IF s[e] = "," THEN ReadElements(s, e + 1, got)
                 ELSE IF s[e] = "]" THEN [ok |-> TRUE, val |-> got, next |-> e + 1]
                 ELSE Bad

\* JSON.parse(text): for each element of the array its color, its name and
\* the keys of all its members
JSONparse(s) ==
    LET a == SkipWs(s, 1)
    IN  IF a > Len(s) \/ s[a] # "[" THEN Bad
        ELSE LET b == SkipWs(s, a + 1)
             IN  IF b <= Len(s) /\ s[b] = "]"
                 THEN [ok |-> TRUE, val |-> <<>>, next |-> b + 1]
                 ELSE ReadElements(s, a + 1, <<>>)

-----------------------------------------------------------------------------
(* The App component: state, handlers, render *)

Fields == {"hue", "saturation", "brightness"}

\* useState({hue: 0, saturation: 0, brightness: 0})
InitialAdjustments == [hue |-> 0, saturation |-> 0, brightness |-> 0]

DecDigits == <<"0","1","2","3","4","5","6","7","8","9">>

\* The range input's value: the decimal text of an integer.
RECURSIVE DecimalNat(_)
DecimalNat(n) ==
    IF n < 10 THEN <<DecDigits[n + 1]>>
    ELSE DecimalNat(n \div 10) \o <<DecDigits[(n % 10) + 1]>>

TargetValue(v) == IF v < 0 THEN <<"-">> \o DecimalNat(-v) ELSE DecimalNat(v)

RECURSIVE NumberFrom(_, _, _)
NumberFrom(s, k, acc) ==
    IF k > Len(s) THEN acc
    ELSE NumberFrom(s, k + 1,
             10 * acc + ((CHOOSE d \in 1..10 : DecDigits[d] = s[k]) - 1))

\* Number(e.target.value) for an optional sign and decimal digits
Number(s) ==
    IF s = <<>> THEN 0
    ELSE IF s[1] = "-" THEN -NumberFrom(s, 2, 0)
    ELSE NumberFrom(s, 1, 0)

\* setAdjustments clamping the value to [-100, 100]
setAdjustmentsClamped(prev, field, value) ==
    LET v == Number(value)
    IN  [prev EXCEPT ![field] = IF v < -100 THEN -100 ELSE IF v > 100 THEN 100 ELSE v]

\* setAdjustments(prev => ({...prev, [field]: Number(e.target.value)}))
setAdjustments(prev, field, value) == [prev EXCEPT ![field] = Number(value)]

\* updateName comparing the 1-based position with index
updateNameOffByOne(prev, index, name) ==
    [k \in 1..Len(prev) |->
        IF k = index THEN [prev[k] EXCEPT !.name = name] ELSE prev[k]]

\* prev.map((item, i) => (i === index ? {...item, name} : item))
updateName(prev, index, name) ==
    [k \in 1..Len(prev) |->
        IF k - 1 = index THEN [prev[k] EXCEPT !.name = name] ELSE prev[k]]

\* handleGenerate giving the new colors the names of the old entries
handleGenerateKeepNames(prev, run) ==
    LET fresh == NewPalette(run)
    IN  [k \in 1..Len(fresh) |-> [color |-> fresh[k].color, name |-> prev[k].name]]

\* setPalette(generateHarmoniousPalette().map(...)): the new state ignores the old
handleGenerate(prev, run) == NewPalette(run)

\* useCallback with an empty dependency list: the first closure is kept
useCallbackNoDeps(seen, before, now) == seen

\* useCallback(() => {... palette ...}, [palette]) at a render: the callback,
\* and with it the palette it closes over, is replaced when palette changed.
useCallbackPalette(seen, before, now) == IF now # before THEN now ELSE seen

NoDownload == [made |-> FALSE, file |-> "", data |-> <<>>]

\* URL.createObjectURL: a URL that is not in use
FreshUrl(urls) == CHOOSE u \in 1..(Cardinality(urls) + 1) : u \notin urls

\* handleExport with seen the palette its closure holds.  clickThrows: whether
\* a.click() raises, which ends the handler at that statement.
handleExport(seen, urls, clickThrows) ==
    LET data    == JSONstringify(seen)
        url     == FreshUrl(urls)
        created == urls \cup {url}
    IN  IF clickThrows
        THEN [download |-> NoDownload, urls |-> created]
        ELSE [download |-> [made |-> TRUE, file |-> "palette.json", data |-> data],
              urls     |-> created \ {url}]

\* ColorSwatch({color, name}): what the swatch shows (its hover overlay included)
ColorSwatch(color, name) ==
    LET c == hexToRgb(color)
        x == rgbToHsl(c.r, c.g, c.b)
    IN  [background |-> color,
         name       |-> name,
         hexText    |-> color,
         rgbText    |-> <<c.r, c.g, c.b>>,
         hslText    |-> <<MathRound(x.h), MathRound(x.s), MathRound(x.l)>>,
         shades     |-> [i \in 0..4 |->
                            [h |-> x.h, s |-> x.s,
                             l |-> RMul(x.l, RSub(RInt(1), Rat(i, 5)))]]]

\* AppMain with the hue adjustment applied to the color handed to the swatch
AppMainAdjusted(pal, adj) ==
    [k \in 1..Len(pal) |->
        ColorSwatch(IF adj.hue = 0 THEN pal[k].color
                    ELSE <<"#">> \o Slice(pal[k].color, 3, 7) \o Slice(pal[k].color, 1, 3),
                    pal[k].name)]

\* <main>{palette.map((item, index) => <ColorSwatch color name .../>)}</main>
\* of an App whose state is (pal, adj)
AppMain(pal, adj) == [k \in 1..Len(pal) |-> ColorSwatch(pal[k].color, pal[k].name)]

-----------------------------------------------------------------------------
(* Inputs *)

\* Math.random() results: the smallest, the largest, and ones that give
\* #336699 and #0000ff
DMax  == RandDen - 1
DBlue == 51 * 65536 + 102 * 256 + 154
DLow  == 16 * 16

\* Math.random() results that select names[w]
Word(w) == w * (RandDen \div 8)

\* The eleven Math.random() results of one generation
RandomRuns ==
    { [base |-> 0,     colors |-> <<0, 0, 0, 0, 0>>,
                       labels |-> <<0, 0, 0, 0, 0>>],
      [base |-> DBlue, colors |-> <<DBlue, DLow, DMax, 0, DBlue>>,
                       labels |-> <<Word(1), Word(2), Word(3), Word(7), Word(1)>>],
      [base |-> DMax,  colors |-> <<DMax, DMax, DBlue, DLow, 1>>,
                       labels |-> <<DMax, 0, Word(4), Word(5), Word(6)>>] }

Custom == <<"C","u","s","t","o","m">>
Quoted == <<"a", "\"", "\\", "\n", " ", "b">>

\* What the user types into a swatch's name field
UserNames == {Custom, Quoted}

\* Positions given to updateName: those of the list and one beyond each end
Indices == -1..PaletteSize

\* The (index, name) pairs given to updateName: Custom at every position,
\* Quoted at the first and the last
RenameInputs ==
    {<<i, Custom>> : i \in Indices} \cup {<<i, Quoted>> : i \in {0, PaletteSize - 1}}

\* Slider values, inside and outside min/max of the three range inputs
AdjValues == {-181, 0, 101}

\* At most this many object URLs are left unrevoked
MaxUrls == 1

-----------------------------------------------------------------------------
(* One App instance *)

IdleGen   == [base |-> 0, colors |-> <<>>, labels |-> <<>>]
IdlePair  == /\ paletteB = <<>>
             /\ adjustmentsB = InitialAdjustments
             /\ exportSeenB = <<>>
             /\ downloadB = NoDownload
IdleGenerator == genIn = IdleGen /\ genOut = <<>>
IdleColor == /\ hexIn = <<>>
             /\ rgb = [r |-> 0, g |-> 0, b |-> 0]
             /\ hsl = [h |-> RInt(0), s |-> RInt(0), l |-> RInt(0)]
             /\ hexOut = <<>>
             /\ stage = "idle"

Init ==
    /\ \E run \in RandomRuns : palette = NewPalette(run)
    /\ adjustments = InitialAdjustments
    /\ exportSeen = palette
    /\ lastOp = "init"
    /\ download = NoDownload
    /\ liveUrls = {}
    /\ IdlePair /\ IdleGenerator /\ IdleColor

\* "Generate New" is clicked
Generate(run) ==
    /\ palette' = handleGenerate(palette, run)
    /\ exportSeen' = useCallbackPalette(exportSeen, palette, palette')
    /\ lastOp' = "generate"
    /\ download' = NoDownload
    /\ UNCHANGED <<adjustments, liveUrls, pairVars, genVars, colorVars>>

\* A swatch's name field changes: onNameChange -> updateName(index, name)
Rename(index, name) ==
    /\ palette' = updateName(palette, index, name)
    /\ exportSeen' = useCallbackPalette(exportSeen, palette, palette')
    /\ lastOp' = "rename"
    /\ download' = NoDownload
    /\ UNCHANGED <<adjustments, liveUrls, pairVars, genVars, colorVars>>

\* A slider moves to v
Adjust(field, v) ==
    /\ adjustments' = setAdjustments(adjustments, field, TargetValue(v))
    /\ exportSeen' = useCallbackPalette(exportSeen, palette, palette)
    /\ lastOp' = "adjust"
    /\ download' = NoDownload
    /\ UNCHANGED <<palette, liveUrls, pairVars, genVars, colorVars>>

\* "Export JSON" is clicked
Export(clickThrows) ==
    LET res == handleExport(exportSeen, liveUrls, clickThrows)
    IN  /\ clickThrows => Cardinality(liveUrls) < MaxUrls
        /\ download' = res.download
        /\ liveUrls' = res.urls
        /\ lastOp' = IF clickThrows THEN "exportThrew" ELSE "export"
        /\ UNCHANGED <<palette, adjustments, exportSeen, pairVars, genVars, colorVars>>

Next ==
    \/ \E run \in RandomRuns : Generate(run)
    \/ \E in \in RenameInputs : Rename(in[1], in[2])
    \/ \E field \in Fields, v \in AdjValues : Adjust(field, v)
    \/ \E clickThrows \in BOOLEAN : Export(clickThrows)

Spec == Init /\ [][Next]_vars

-----------------------------------------------------------------------------
(* Properties of one App instance *)

\* name is a label generateColorName can return for hex
IsLabelFor(name, hex) ==
    \E w \in 1..Len(names) : name = names[w] \o <<"-">> \o Slice(hex, 1, 4)

Pairs(p) == [k \in 1..Len(p) |-> [color |-> p[k].color, name |-> p[k].name]]

\* C1: whatever handlers have run, the list has exactly 5 entries and each
\* color is '#' and six hex digits; right after the initial generation and
\* after every regeneration every name is non-empty.
C1_PaletteWellFormed ==
    /\ Len(palette) = 5
    /\ \A k \in 1..Len(palette) : ValidColor(palette[k].color)
    /\ lastOp \in {"init", "generate"} =>
           \A k \in 1..Len(palette) : palette[k].name # <<>>

C1_Witness ==
    /\ lastOp = "generate"
    /\ adjustments.hue = -181
    /\ palette[2].color = <<"#","0","0","0","0","f","f">>
    /\ palette[3].color = <<"#","f","f","f","f","f","e">>

\* C2: a step that is updateName(index, name) changes only the name at
\* position index; the entry's color, every other entry, the length and the
\* adjustments stay, and with index outside 0..4 nothing of the session changes.
C2_RenameFrame ==
    [][\A in \in RenameInputs :
         Rename(in[1], in[2]) =>
            /\ Len(palette') = Len(palette)
            /\ adjustments' = adjustments
            /\ \A k \in 1..Len(palette) :
                  /\ palette'[k].color = palette[k].color
                  /\ palette'[k].name = IF k - 1 = in[1] THEN in[2] ELSE palette[k].name
            /\ in[1] \notin 0..4 =>
                  /\ palette' = palette
                  /\ adjustments' = adjustments
                  /\ liveUrls' = liveUrls]_vars

C2_Witness ==
    /\ lastOp = "rename"
    /\ palette[3].name = Custom
    /\ palette[1].name = Quoted
    /\ IsLabelFor(palette[2].name, palette[2].color)
    /\ adjustments.saturation = 101

\* C3: the text a completed export hands over parses to exactly the session's
\* (color, name) pairs at that moment, in order, each object holding those two
\* members and nothing of the adjustments.
C3_ExportRoundTrip ==
    download.made =>
        LET parsed == JSONparse(download.data)
        IN  /\ parsed.ok
            /\ parsed.next = Len(download.data) + 1
            /\ Pairs(parsed.val) = palette
            /\ \A k \in 1..Len(parsed.val) : parsed.val[k].keys = <<ColorKey, NameKey>>

C3_Witness ==
    /\ download.made
    /\ lastOp = "export"
    /\ palette[3].name = Custom
    /\ palette[1].name = Quoted
    /\ JSONparse(download.data).val[3].name = Custom
    /\ adjustments # InitialAdjustments

\* C4: after an export handler has returned or thrown, no object URL it
\* created is still unrevoked.
C4_UrlReleased == liveUrls = {}

\* C5: a regeneration step gives every entry a freshly generated label for its
\* new color (no user-entered name survives) and leaves the adjustments as
\* they were.
C5_RegenerateFrame ==
    [][lastOp' = "generate" =>
         /\ Len(palette') = 5
         /\ \A k \in 1..Len(palette') :
               /\ IsLabelFor(palette'[k].name, palette'[k].color)
               /\ palette'[k].name \notin UserNames
         /\ adjustments' = adjustments]_vars

C5_Witness ==
    /\ lastOp = "generate"
    /\ adjustments = [hue |-> 101, saturation |-> -181, brightness |-> 101]
    /\ \A k \in 1..Len(palette) : IsLabelFor(palette[k].name, palette[k].color)

\* C6: a step that moves the slider of field to v stores exactly v in that
\* field, however far outside the slider's range, and leaves the other two
\* fields and the entry list as they were.
C6_AdjustFrame ==
    [][\A field \in Fields, v \in AdjValues :
         Adjust(field, v) =>
            /\ adjustments'[field] = v
            /\ \A other \in Fields \ {field} : adjustments'[other] = adjustments[other]
            /\ palette' = palette]_vars

C6_Witness ==
    /\ lastOp = "adjust"
    /\ adjustments = [hue |-> -181, saturation |-> 101, brightness |-> 0]
    /\ palette[3].name = Custom

-----------------------------------------------------------------------------
(* Two App instances given the same generations and renames *)

IdleSessionExtras == lastOp = "init" /\ liveUrls = {}

PairRenameInputs == {<<2, Custom>>, <<0, Quoted>>, <<PaletteSize, Custom>>}

PairInit ==
    /\ \E run \in RandomRuns : palette = NewPalette(run)
    /\ paletteB = palette
    /\ adjustments = InitialAdjustments
    /\ adjustmentsB = InitialAdjustments
    /\ exportSeen = palette
    /\ exportSeenB = paletteB
    /\ download = NoDownload
    /\ downloadB = NoDownload
    /\ IdleSessionExtras /\ IdleGenerator /\ IdleColor

PairGenerate(run) ==
    /\ palette' = handleGenerate(palette, run)
    /\ paletteB' = handleGenerate(paletteB, run)
    /\ exportSeen' = useCallbackPalette(exportSeen, palette, palette')
    /\ exportSeenB' = useCallbackPalette(exportSeenB, paletteB, paletteB')
    /\ download' = NoDownload
    /\ downloadB' = NoDownload
    /\ UNCHANGED <<adjustments, adjustmentsB, lastOp, liveUrls, genVars, colorVars>>

PairRename(index, name) ==
    /\ palette' = updateName(palette, index, name)
    /\ paletteB' = updateName(paletteB, index, name)
    /\ exportSeen' = useCallbackPalette(exportSeen, palette, palette')
    /\ exportSeenB' = useCallbackPalette(exportSeenB, paletteB, paletteB')
    /\ download' = NoDownload
    /\ downloadB' = NoDownload
    /\ UNCHANGED <<adjustments, adjustmentsB, lastOp, liveUrls, genVars, colorVars>>

\* Only the first instance's slider moves
AdjustA(field, v) ==
    /\ adjustments' = setAdjustments(adjustments, field, TargetValue(v))
    /\ download' = NoDownload
    /\ downloadB' = NoDownload
    /\ UNCHANGED <<palette, paletteB, adjustmentsB, exportSeen, exportSeenB,
                   lastOp, liveUrls, genVars, colorVars>>

\* Only the second instance's slider moves
AdjustB(field, v) ==
    /\ adjustmentsB' = setAdjustments(adjustmentsB, field, TargetValue(v))
    /\ download' = NoDownload
    /\ downloadB' = NoDownload
    /\ UNCHANGED <<palette, paletteB, adjustments, exportSeen, exportSeenB,
                   lastOp, liveUrls, genVars, colorVars>>

PairExport ==
    /\ download' = handleExport(exportSeen, {}, FALSE).download
    /\ downloadB' = handleExport(exportSeenB, {}, FALSE).download
    /\ UNCHANGED <<palette, paletteB, adjustments, adjustmentsB, exportSeen,
                   exportSeenB, lastOp, liveUrls, genVars, colorVars>>

PairNext ==
    \/ \E run \in RandomRuns : PairGenerate(run)
    \/ \E in \in PairRenameInputs : PairRename(in[1], in[2])
    \/ \E field \in Fields, v \in AdjValues : AdjustA(field, v)
    \/ \E field \in Fields, v \in AdjValues : AdjustB(field, v)
    \/ PairExport

SpecPair == PairInit /\ [][PairNext]_vars

\* C7: two instances that saw the same generations and renames show the same
\* swatches (colors, HEX/RGB/HSL texts, shade ramps) and export the same
\* payload, whatever their sliders were set to.
C7_AdjustmentsInert ==
    /\ AppMain(palette, adjustments) = AppMain(paletteB, adjustmentsB)
    /\ download = downloadB

C7_Witness ==
    /\ adjustments = [hue |-> -181, saturation |-> 101, brightness |-> 101]
    /\ adjustmentsB = [hue |-> 101, saturation |-> 0, brightness |-> -181]
    /\ download.made
    /\ palette[3].name = Custom

-----------------------------------------------------------------------------
(* The palette generator on its own *)

IdleSession ==
    /\ palette = <<>>
    /\ adjustments = InitialAdjustments
    /\ exportSeen = <<>>
    /\ download = NoDownload
    /\ IdleSessionExtras

\* Math.random() results for the base hue and for the five colors
BaseDraws  == {0, DMax}
ColorDraws == {0, 1, DBlue, DMax}

GenInit ==
    /\ \E base \in BaseDraws, colors \in [1..PaletteSize -> ColorDraws] :
          genIn = [base |-> base, colors |-> colors, labels |-> <<>>]
    /\ genOut = <<>>
    /\ IdleSession /\ IdlePair /\ IdleColor

GenRun ==
    /\ genOut = <<>>
    /\ genOut' = generateHarmoniousPalette(genIn)
    /\ UNCHANGED <<genIn, sessionVars, pairVars, colorVars>>

GenNext == GenRun

SpecGen == GenInit /\ [][GenNext]_vars

\* A 24-bit number as a color string
ColorText(n) == <<"#">> \o padStart(toString16(n), 6, "0")

\* Colors asked of a slot: black, #336699, #fffffe and white
TargetColors == {0, DBlue - 1, DMax - 1, DMax}

\* Math.random() results tried for color n.  Math.floor(rnd * 16777215) is
\* rnd's numerator or one less (GenFloorWindow), so no other result gives n.
CandidateDraws(n) == {m \in (n - 2)..(n + 2) : 0 <= m /\ m <= DMax} \cup {0, DMax}

\* C8: in every slot every color from #000000 through #ffffff can come out,
\* whatever the base hue and the other slots' draws are.
C8_EveryColorInEverySlot ==
    genOut # <<>> =>
        \A k \in 1..PaletteSize, n \in TargetColors :
            \E m \in CandidateDraws(n) :
                generateHarmoniousPalette(
                    [genIn EXCEPT !.colors[k] = m])[k] = ColorText(n)

\* The part of C8 the code has: a slot's color is decided by that slot's own
\* Math.random() result, not by the base hue or the other slots.
GenSlotIndependent ==
    genOut # <<>> =>
        \A k \in 1..PaletteSize, base \in BaseDraws, other \in ColorDraws :
            generateHarmoniousPalette(
                [base   |-> base,
                 colors |-> [j \in 1..PaletteSize |->
                               IF j = k THEN genIn.colors[k] ELSE other],
                 labels |-> <<>>])[k] = genOut[k]

\* No slot is ever #ffffff: the largest number drawn is 16777214.
GenNeverWhite ==
    \A k \in 1..Len(genOut) : genOut[k] # ColorText(DMax)

GenFloorWindow ==
    \A k \in 1..PaletteSize :
        LET m == genIn.colors[k]
        IN  MulFloor(m, ColorRange) \in {m - 1, m} /\ MulFloor(m, ColorRange) < ColorRange

-----------------------------------------------------------------------------
(* The color conversions on their own: parse, convert, encode again *)

ChannelTexts ==
    { <<"0","0">>, <<"0","1">>, <<"3","3">>, <<"6","6">>, <<"9","9">>,
      <<"7","f">>, <<"8","0">>, <<"f","e">>, <<"F","F">>, <<"a","B">> }

\* '#' and six hex digits of either case, and what the generator emits
ColorInputs ==
    {<<"#">> \o a \o b \o c : a \in ChannelTexts, b \in ChannelTexts, c \in ChannelTexts}
    \cup {SlotColor(RInt(0), m) : m \in ColorDraws \cup {DLow}}

ColorInit ==
    /\ hexIn \in ColorInputs
    /\ rgb = [r |-> 0, g |-> 0, b |-> 0]
    /\ hsl = [h |-> RInt(0), s |-> RInt(0), l |-> RInt(0)]
    /\ hexOut = <<>>
    /\ stage = "hex"
    /\ IdleSession /\ IdlePair /\ IdleGenerator

ColorParse ==
    /\ stage = "hex"
    /\ rgb' = hexToRgb(hexIn)
    /\ stage' = "rgb"
    /\ UNCHANGED <<hexIn, hsl, hexOut, sessionVars, pairVars, genVars>>

ColorToHsl ==
    /\ stage = "rgb"
    /\ hsl' = rgbToHsl(rgb.r, rgb.g, rgb.b)
    /\ stage' = "hsl"
    /\ UNCHANGED <<hexIn, rgb, hexOut, sessionVars, pairVars, genVars>>

ColorEncode ==
    /\ stage = "hsl"
    /\ hexOut' = rgbToHex(rgb)
    /\ stage' = "done"
    /\ UNCHANGED <<hexIn, rgb, hsl, sessionVars, pairVars, genVars>>

ColorNext == ColorParse \/ ColorToHsl \/ ColorEncode

SpecColor == ColorInit /\ [][ColorNext]_vars

\* C9: for integer channels in 0..255 rgbToHsl gives 0 <= h < 360,
\* 0 <= s <= 100 and 0 <= l <= 100, and s = 0 and h = 0 for equal channels.
C9_HslRanges ==
    stage \in {"hsl", "done"} =>
        /\ rgb.r \in 0..255 /\ rgb.g \in 0..255 /\ rgb.b \in 0..255
        /\ RLe(RInt(0), hsl.h) /\ RLt(hsl.h, RInt(360))
        /\ RLe(RInt(0), hsl.s) /\ RLe(hsl.s, RInt(100))
        /\ RLe(RInt(0), hsl.l) /\ RLe(hsl.l, RInt(100))
        /\ (rgb.r = rgb.g /\ rgb.g = rgb.b) => (hsl.s = RInt(0) /\ hsl.h = RInt(0))

C9_Witness ==
    /\ stage = "hsl"
    /\ rgb = [r |-> 255, g |-> 0, b |-> 1]
    /\ RLt(RInt(359), hsl.h)
    /\ hsl.s = RInt(100)

\* C10: for '#' and six hex digits hexToRgb gives three integers in 0..255
\* which, written again as '#' and six zero-padded hex digits, are the input
\* up to letter case.
C10_HexRoundTrip ==
    stage = "done" =>
        /\ ValidColor(hexIn)
        /\ rgb.r \in 0..255 /\ rgb.g \in 0..255 /\ rgb.b \in 0..255
        /\ hexOut = ToLower(hexIn)

C10_Witness ==
    /\ stage = "done"
    /\ hexIn = <<"#","F","F","a","B","0","1">>
    /\ rgb = [r |-> 255, g |-> 171, b |-> 1]
    /\ hexOut = <<"#","f","f","a","b","0","1">>

\* The spec's worked example: #336699 is (51, 102, 153), hsl (210, 50, 40)
ColorExample ==
    (stage = "hsl" /\ hexIn = <<"#","3","3","6","6","9","9">>) =>
        /\ rgb = [r |-> 51, g |-> 102, b |-> 153]
        /\ hsl = [h |-> RInt(210), s |-> RInt(50), l |-> RInt(40)]

====
